---- MODULE Spec2Model ----
(***************************************************************************)
(* A state-machine model of the Marketdata scraping pipeline:              *)
(*   src/src/osm_discover.py    overpass_post (retry loop)                 *)
(*   src/src/promo_discover.py  normalize_base .. main (promo discovery)   *)
(*   src/src/extract_deals.py   extract_prices .. main (deal extraction)   *)
(*   src/src/export_feed.py     pick_col, as_bool, main (feed export)      *)
(*   src/Scraperbot.py          the scheduled scrape-and-compare run       *)
(* Strings are modelled as sequences of tokens (short substrings), so that *)
(* parsing, joining and stripping are computed and not assumed.            *)
(***************************************************************************)
EXTENDS Integers, Sequences, FiniteSets, TLC

VARIABLES
    \* ---- overpass_post (osm_discover.py)
    op_pc,        \* "loop" | "returned" | "raised" | "idle"
    tries,        \* the tries argument
    attempt,      \* the loop variable of range(tries)
    last_err,     \* last_err
    op_trace,     \* events performed so far: posts and sleeps, in order
    op_out,       \* what the call gave its caller: a value or an exception
    \* ---- promo_discover.py main / discover_for_site
    stores,       \* the rows of stores_with_websites.csv
    pd_pc,        \* "start" | "loop" | "probe" | "sitemap" | "homepage" | "rows" | "finish" | "done" | "crashed" | "idle"
    pd_i,         \* index of the store row being processed (1-based)
    pd_k,         \* index of the next path / sitemap file inside discover_for_site
    base,         \* discover_for_site: base
    found,        \* discover_for_site: found
    promo_urls,   \* main: promo_urls, the list discover_for_site returned
    rows,         \* main: rows
    promo_csv,    \* the table written to promo_urls.csv
    pd_req,       \* the urls head()/get() were called with for the current store
    pd_resp,      \* the response to the last request issued
    pd_anyok,     \* whether some request for the current store succeeded
    \* ---- extract_deals.py main
    ex_pc,        \* "start" | "loop" | "done" | "idle"
    promos,       \* the table read from promo_urls.csv
    ex_i,         \* index of the promo row being processed (1-based)
    deals,        \* main: rows
    ex_trace,     \* events performed so far: "fetch", "rejected", "sleep", in order
    ex_text,      \* main: text, the cleaned text of the last page parsed
    \* ---- export_feed.py main
    ef_pc,        \* "loop" | "write" | "done" | "idle"
    xlsx,         \* df, the table read from deals.xlsx: its columns and its rows
    ef_i,         \* index of the row being processed (1-based)
    ef_rows,      \* main: rows, the items kept so far
    feed,         \* the document written to published_deals.json
    \* ---- Scraperbot.py, one process per scheduled run
    sb_pc,        \* "load" | "scrape" | "compare" | "save" | "ended" | "idle"
    sb_run,       \* number of the current run (1-based)
    sb_t,         \* index of the next entry of STORE_TARGETS to scrape
    history,      \* the file previous_deals.json: whether it exists and the list of ids in it
    previous_deal_ids,  \* previous_deal_ids
    all_current_deals,  \* all_current_deals
    new_deals,    \* new_deals
    sb_alert,     \* which message this run handed to send_telegram_alert ("" before that)
    sb_before     \* the ids scraped by the run before the current one

op_vars == <<op_pc, tries, attempt, last_err, op_trace, op_out>>
pd_vars == <<stores, pd_pc, pd_i, pd_k, base, found, promo_urls, rows, promo_csv,
             pd_req, pd_resp, pd_anyok>>
ex_vars == <<ex_pc, promos, ex_i, deals, ex_trace, ex_text>>
ef_vars == <<ef_pc, xlsx, ef_i, ef_rows, feed>>
sb_vars == <<sb_pc, sb_run, sb_t, history, previous_deal_ids, all_current_deals, new_deals,
             sb_alert, sb_before>>
aux_vars == <<ef_vars, sb_vars>>
vars == <<op_vars, pd_vars, ex_vars, ef_vars, sb_vars>>

-----------------------------------------------------------------------------
(* Bounds of the model *)

MaxRuns == 3           \* number of successive runs of Scraperbot explored
MaxXlsxRows == 2       \* largest number of rows of deals.xlsx explored
MaxTries == 3          \* largest tries argument explored
JitterSteps == 2       \* random.random() is drawn from {0, 1/JitterSteps, ..}

NoneVal == [kind |-> "None"]

RECURSIVE Pow2(_)
Pow2(n) == IF n = 0 THEN 1 ELSE 2 * Pow2(n - 1)

-----------------------------------------------------------------------------
(* osm_discover.py: overpass_post *)

OVERPASS_ENDPOINTS ==
    <<"https://overpass-api.de/api/interpreter",
      "https://overpass.kumi.systems/api/interpreter",
      "https://overpass.nchc.org.tw/api/interpreter">>

\* What one attempt can meet: requests.post raising (transport), raise_for_status
\* raising (HTTP error status), r.json() raising (undecodable body), or a decoded body.
FailKinds == {"ConnectionError", "HTTPError", "JSONDecodeError"}
Payloads == {"elements_a", "elements_b"}

\* The exception object of one failed attempt
Err(kind, att, url) == [kind |-> kind, attempt |-> att, url |-> url]

\* time.sleep argument, in units of 1/JitterSteps seconds: 2**attempt + random.random()
SleepS(att, j) == Pow2(att) * JitterSteps + j

PostEv(url, outcome, body) ==
    [ev |-> "post", url |-> url, outcome |-> outcome, body |-> body, dur |-> 0]
SleepEv(d) == [ev |-> "sleep", url |-> "", outcome |-> "", body |-> "", dur |-> d]

\* for attempt in range(tries): whether the loop body runs for this attempt
InRangeOffByOne(att, n) == att + 1 < n
InRange(att, n) == att < n

\* One loop iteration whose try block completes, with the return left out
OverpassAttemptOkNoReturn ==
    /\ op_pc = "loop"
    /\ InRange(attempt, tries)
    /\ \E e \in 1..Len(OVERPASS_ENDPOINTS), body \in Payloads :
          /\ op_trace' = Append(op_trace, PostEv(OVERPASS_ENDPOINTS[e], "ok", body))
          /\ op_out' = [kind |-> "value", value |-> body]
    /\ attempt' = attempt + 1
    /\ UNCHANGED <<op_pc, tries, last_err, pd_vars, ex_vars, aux_vars>>

\* One loop iteration whose try block completes: return r.json()
OverpassAttemptOk ==
    /\ op_pc = "loop"
    /\ InRange(attempt, tries)
    /\ \E e \in 1..Len(OVERPASS_ENDPOINTS), body \in Payloads :
          /\ op_trace' = Append(op_trace, PostEv(OVERPASS_ENDPOINTS[e], "ok", body))
          /\ op_out' = [kind |-> "value", value |-> body]
    /\ op_pc' = "returned"
    /\ UNCHANGED <<tries, attempt, last_err, pd_vars, ex_vars, aux_vars>>

\* One loop iteration whose try block raises: the except branch (last_err, the
\* backoff sleep), then on to the next value of range(tries)
OverpassAttemptFail ==
    /\ op_pc = "loop"
    /\ InRange(attempt, tries)
    /\ \E e \in 1..Len(OVERPASS_ENDPOINTS), k \in FailKinds, j \in 0..(JitterSteps - 1) :
          /\ last_err' = Err(k, attempt, OVERPASS_ENDPOINTS[e])
          /\ op_trace' = op_trace \o <<PostEv(OVERPASS_ENDPOINTS[e], k, ""),
                                        SleepEv(SleepS(attempt, j))>>
    /\ attempt' = attempt + 1
    /\ UNCHANGED <<op_pc, tries, op_out, pd_vars, ex_vars, aux_vars>>

\* range(tries) is exhausted: raise last_err (raise None is a TypeError)
OverpassExhausted ==
    /\ op_pc = "loop"
    /\ ~InRange(attempt, tries)
    /\ op_out' = IF last_err = NoneVal
                 THEN [kind |-> "TypeError", attempt |-> -1, url |-> ""]
                 ELSE last_err
    /\ op_pc' = "raised"
    /\ UNCHANGED <<tries, attempt, last_err, op_trace, pd_vars, ex_vars, aux_vars>>

NextOverpass ==
    \/ OverpassAttemptOk
    \/ OverpassAttemptFail
    \/ OverpassExhausted

InitOverpass ==
    /\ op_pc = "loop"
    /\ tries \in 0..MaxTries
    /\ attempt = 0
    /\ last_err = NoneVal
    /\ op_trace = <<>>
    /\ op_out = NoneVal
    /\ stores = <<>>
    /\ pd_pc = "idle"
    /\ pd_i = 0
    /\ pd_k = 0
    /\ base = <<>>
    /\ found = {}
    /\ promo_urls = <<>>
    /\ rows = <<>>
    /\ promo_csv = <<>>
    /\ pd_req = <<>>
    /\ pd_resp = [url |-> <<>>, exc |-> FALSE, status |-> 0, body |-> <<>>]
    /\ pd_anyok = FALSE
    /\ ex_pc = "idle"
    /\ promos = <<>>
    /\ ex_i = 0
    /\ deals = <<>>
    /\ ex_trace = <<>>
    /\ ex_text = <<>>
    /\ ef_pc = "idle"
    /\ xlsx = [columns |-> <<>>, data |-> <<>>]
    /\ ef_i = 0
    /\ ef_rows = <<>>
    /\ feed = [written |-> FALSE, items |-> <<>>]
    /\ sb_pc = "idle"
    /\ sb_run = 0
    /\ sb_t = 0
    /\ history = [exists |-> FALSE, ids |-> <<>>]
    /\ previous_deal_ids = {}
    /\ all_current_deals = <<>>
    /\ new_deals = <<>>
    /\ sb_alert = ""
    /\ sb_before = {}

SpecOverpass == InitOverpass /\ [][NextOverpass]_vars

-----------------------------------------------------------------------------
(* Claims about overpass_post *)

Posts(tr) == SelectSeq(tr, LAMBDA e : e.ev = "post")
Sleeps(tr) == SelectSeq(tr, LAMBDA e : e.ev = "sleep")
IsErrorOut(o) == o.kind \in FailKinds \cup {"TypeError"}

\* C1: with tries = M >= 1 and every attempt failing, an error reaches the caller
\* only once exactly M requests have been issued, and it is the error of the
\* M-th attempt (its kind, its endpoint, attempt index M-1); while fewer than M
\* failed attempts have been made the call is still in its loop.
C1_ExhaustedRaisesLastError ==
    LET posts == Posts(op_trace) IN
    tries >= 1 =>
      /\ Len(posts) <= tries
      /\ IsErrorOut(op_out) =>
            /\ op_pc = "raised"
            /\ Len(posts) = tries
            /\ \A p \in 1..Len(posts) : posts[p].outcome \in FailKinds
            /\ op_out = Err(posts[tries].outcome, tries - 1, posts[tries].url)
      /\ (op_pc = "raised") => IsErrorOut(op_out)
      /\ ((\A p \in 1..Len(posts) : posts[p].outcome \in FailKinds) /\ Len(posts) < tries)
            => op_pc = "loop"

\* C1 witness: three failing attempts of different kinds on different endpoints,
\* and the third one's error raised.
C1_Witness ==
    LET posts == Posts(op_trace) IN
    /\ tries = 3
    /\ op_pc = "raised"
    /\ Len(posts) = 3
    /\ posts[1].outcome = "HTTPError"
    /\ posts[2].outcome = "ConnectionError"
    /\ posts[3].outcome = "JSONDecodeError"
    /\ posts[1].url # posts[3].url
    /\ op_out.kind = "JSONDecodeError"

\* C2: a successful attempt is the last event of the call: the call has returned
\* that attempt's decoded body, and no request, no backoff sleep and no raise
\* follows it, whatever number of failed attempts came before.
C2_SuccessShortCircuits ==
    \A p \in 1..Len(op_trace) :
        (op_trace[p].ev = "post" /\ op_trace[p].outcome = "ok") =>
            /\ p = Len(op_trace)
            /\ op_pc = "returned"
            /\ op_out = [kind |-> "value", value |-> op_trace[p].body]

\* C2 witness: two failed attempts, then a success that was returned.
C2_Witness ==
    /\ op_pc = "returned"
    /\ Len(Posts(op_trace)) = 3
    /\ Len(Sleeps(op_trace)) = 2
    /\ op_out.kind = "value"

-----------------------------------------------------------------------------
(* Strings as token sequences *)

MaxStoreRows == 3      \* rows of stores_with_websites.csv
NumCommonPaths == 2    \* how many entries of COMMON_PATHS are probed

\* pandas' missing value (a float NaN), as a cell of a table
NaNVal == <<"<NaN>">>

SchemeToks == {"http://", "https://"}
SpaceToks == {" ", "\n"}
PathToks == {"/about", "/deal", "/deals", "/offers", "/sale", "/shop",
             "/sitemap.xml", "/sitemap_index.xml"}
FragToks == {"#top"}

\* The tokens in the order Python compares the strings they stand for
TokOrder == <<"\n", " ", "#top", "/about", "/deal", "/deals", "/offers", "/sale", "/shop",
              "/sitemap.xml", "/sitemap_index.xml", "<NaN>", "A.com", "B.org", "[",
              "a.com", "b.org", "evil.com", "http://", "https://", "mailto:x", "nan">>
TokRank(t) == CHOOSE i \in 1..Len(TokOrder) : TokOrder[i] = t

\* str < str, token by token
RECURSIVE StrLess(_, _)
StrLess(u, v) ==
    IF v = <<>> THEN FALSE
    ELSE IF u = <<>> THEN TRUE
    ELSE IF Head(u) = Head(v) THEN StrLess(Tail(u), Tail(v))
    ELSE TokRank(Head(u)) < TokRank(Head(v))

\* sorted(set of str)
RECURSIVE Sorted(_)
Sorted(S) ==
    IF S = {} THEN <<>>
    ELSE LET m == CHOOSE x \in S : \A y \in S \ {x} : StrLess(x, y)
         IN <<m>> \o Sorted(S \ {m})

\* seq[:n]
Range(seq) == {seq[i] : i \in 1..Len(seq)}
Take(seq, n) == SubSeq(seq, 1, IF Len(seq) < n THEN Len(seq) ELSE n)

\* str.lower()
LowerTok(t) == CASE t = "A.com" -> "a.com" [] t = "B.org" -> "b.org"
                 [] t = "Title" -> "title" [] t = "YES" -> "yes" [] OTHER -> t
Lower(u) == [i \in 1..Len(u) |-> LowerTok(u[i])]

\* str.strip()
RECURSIVE LStrip(_)
LStrip(u) == IF u # <<>> /\ Head(u) \in SpaceToks THEN LStrip(Tail(u)) ELSE u
RECURSIVE RStrip(_)
RStrip(u) == IF u # <<>> /\ u[Len(u)] \in SpaceToks THEN RStrip(SubSeq(u, 1, Len(u) - 1)) ELSE u
Strip(u) == RStrip(LStrip(u))

\* str(website): a NaN cell prints as "nan"
Str(v) == IF v = NaNVal THEN <<"nan">> ELSE v

\* url.startswith(("http://", "https://"))
StartsWithScheme(u) == u # <<>> /\ Head(u) \in SchemeToks

\* the longest prefix of u holding no token of D
RECURSIVE UpTo(_, _)
UpTo(u, D) == IF u = <<>> \/ Head(u) \in D THEN <<>> ELSE <<Head(u)>> \o UpTo(Tail(u), D)

\* u.split("#")[0]
SplitFragment(u) == UpTo(u, FragToks)

\* urllib.parse.urlparse: scheme and netloc; the netloc runs from "//" to the first
\* "/", "?" or "#"; a "[" without "]" in it raises ValueError (Invalid IPv6 URL)
urlparse(u) ==
    IF StartsWithScheme(u)
    THEN LET nl == UpTo(Tail(u), PathToks \cup FragToks)
         IN [raised |-> \E i \in 1..Len(nl) : nl[i] = "[",
             scheme |-> IF Head(u) = "https://" THEN "https" ELSE "http",
             netloc |-> nl]
    ELSE [raised |-> FALSE, scheme |-> "", netloc |-> <<>>]

\* f"{scheme}://" as a token
SchemePrefix(scheme) == IF scheme = "https" THEN "https://" ELSE "http://"

\* urllib.parse.urljoin(base, ref) for a base of the form scheme://netloc
urljoin(b, ref) ==
    IF ref = <<>> THEN b
    ELSE IF Head(ref) \in PathToks
         THEN <<SchemePrefix(urlparse(b).scheme)>> \o urlparse(b).netloc \o ref
         ELSE ref

-----------------------------------------------------------------------------
(* promo_discover.py *)

\* The tunables are read from the environment (os.getenv, with defaults 60, 25
\* and 3000); the runs modelled here are those with MAX_STORES=2 and
\* MAX_PROMO_URLS_PER_STORE=2, so that both caps cut.
MAX_STORES == 2
MAX_PROMO_URLS_PER_STORE == 2
SITEMAP_URL_CAP == 3000
HREF_CAP == 1500

CommonPathsAll ==
    <<"/deals", "/deal", "/offers", "/offer", "/promotions", "/promotion",
      "/sale", "/sales", "/clearance", "/special-offers", "/specials",
      "/weekly", "/weekly-ad", "/catalogue", "/catalog", "/leaflet", "/outlet",
      "/offers-and-promotions", "/promos">>
COMMON_PATHS == SubSeq(CommonPathsAll, 1, NumCommonPaths)

SitemapFiles == <<"/sitemap.xml", "/sitemap_index.xml">>

\* KEYWORDS.search(u): some token holds one of the keywords of the pattern
KeywordToks == {"/deal", "/deals", "/offers", "/sale"}
KEYWORDS(u) == \E i \in 1..Len(u) : LowerTok(u[i]) \in KeywordToks

\* normalize_base; raised: the ValueError of urlparse leaves the function
normalize_base(url) ==
    LET s == Strip(url)
        w == IF StartsWithScheme(s) THEN s ELSE <<"https://">> \o s
        p == urlparse(w)
    IN IF s = <<>> THEN [raised |-> FALSE, value |-> <<>>]
       ELSE IF p.raised THEN [raised |-> TRUE, value |-> <<>>]
       ELSE [raised |-> FALSE, value |-> <<SchemePrefix(p.scheme)>> \o p.netloc]

\* same_domain with the origin check left out
same_domain_always(b, u) == TRUE

\* same_domain: netlocs equal after lower(); any exception gives False
same_domain(b, u) ==
    IF urlparse(b).raised \/ urlparse(u).raised THEN FALSE
    ELSE Lower(urlparse(b).netloc) = Lower(urlparse(u).netloc)

\* priority_score: the points of every keyword the lowered url holds
TokScore(t) ==
    CASE t = "/deals" -> 5
      [] t = "/offers" -> 5
      [] t = "/sale" -> 3
      [] OTHER -> 0
RECURSIVE priority_score(_)
priority_score(u) ==
    IF u = <<>> THEN 0 ELSE TokScore(LowerTok(Head(u))) + priority_score(Tail(u))

\* ---- what the network can answer
NoResp == [url |-> <<>>, exc |-> FALSE, status |-> 0, body |-> <<>>]

\* A request ends in an exception (timeout, connection error, ...), in an error
\* status, or in a 200 with a body. requests raises before sending when the url
\* has no host.
HasHost(u) == ~urlparse(u).raised /\ urlparse(u).netloc # <<>>

Responses(u, bodies) ==
    {[url |-> u, exc |-> TRUE, status |-> 0, body |-> <<>>]}
    \cup (IF HasHost(u)
          THEN {[url |-> u, exc |-> FALSE, status |-> 400, body |-> <<>>]}
               \cup {[url |-> u, exc |-> FALSE, status |-> 200, body |-> bd] : bd \in bodies}
          ELSE {})

SeqsUpTo(S, n) == UNION {[1..m -> S] : m \in 0..n}

LocUniverse ==
    {<<"https://", "a.com", "/sale", "#top">>,
     <<" ", "https://", "A.com", "/deals">>,
     <<"https://", "evil.com", "/deals">>,
     <<"https://", "a.com", "/about">>,
     <<"https://", "[">>}
\* the <loc> lists a sitemap file can hold: none, any one, or a foreign and a same-site one
SitemapBodies ==
    {<<>>} \cup {<<l>> : l \in LocUniverse}
    \cup {<<(<<"https://", "evil.com", "/deals">>), (<<"https://", "a.com", "/sale", "#top">>)>>}

HrefUniverse ==
    {<<"/offers", "#top">>,
     <<"https://", "evil.com", "/sale">>,
     <<"mailto:x">>,
     <<"/about">>}
\* the href lists a homepage can hold: none, any one, or a skipped and a kept one
HomepageBodies ==
    {<<>>} \cup {<<h>> : h \in HrefUniverse}
    \cup {<<(<<"mailto:x">>), (<<"/offers", "#top">>)>>}

\* head_ok without its except branch: a request that raised counts like any other
head_ok_uncaught(resp) == resp.status < 400

\* head_ok
head_ok(resp) == ~resp.exc /\ resp.status < 400

\* extract_sitemap_urls: the stripped non-empty <loc> texts
extract_sitemap_urls(body) ==
    LET stripped == [i \in 1..Len(body) |-> Strip(body[i])]
    IN SelectSeq(stripped, LAMBDA u : u # <<>>)

\* fetch_sitemap_hits, one pass of its loop: the hits one sitemap response adds
SitemapHits(b, resp) ==
    IF resp.exc \/ resp.status >= 400 THEN {}
    ELSE LET urls == Take(extract_sitemap_urls(resp.body), SITEMAP_URL_CAP)
         IN {SplitFragment(urls[i]) :
                i \in {j \in 1..Len(urls) : same_domain(b, urls[j]) /\ KEYWORDS(urls[j])}}

\* fetch_homepage_hits
HomepageHits(b, resp) ==
    IF resp.exc \/ resp.status >= 400 THEN {}
    ELSE LET hrefs == Take(resp.body, HREF_CAP)
             keep == {j \in 1..Len(hrefs) :
                         /\ hrefs[j] # <<>>
                         /\ Head(hrefs[j]) # "mailto:x"
                         /\ same_domain(b, SplitFragment(urljoin(b, hrefs[j])))
                         /\ KEYWORDS(SplitFragment(urljoin(b, hrefs[j])))}
         IN {SplitFragment(urljoin(b, hrefs[j])) : j \in keep}

\* ---- the tables
Store(name, website, category, addr) ==
    [name |-> name, website |-> website, category |-> category, addr |-> addr]

StoreUniverse ==
    {Store("Beta", <<" ", "a.com">>, "shop=shoes", "1 Main St"),
     Store("Alpha", <<"https://", "a.com", "/shop">>, "shop=clothes", "2 High St"),
     Store("Delta", <<" ">>, "shop=shoes", "4 Far Ln"),
     Store("Eta", <<"https://">>, "shop=shoes", "5 Near Ln"),
     Store("Iota", <<"[">>, "shop=clothes", "6 Odd Sq"),
     Store("Kappa", NaNVal, "shop=clothes", "7 Nil Sq")}

NameOrder == <<"Alpha", "Beta", "Delta", "Eta", "Gamma", "Iota", "Kappa", "Zeta">>
NameRank(n) == CHOOSE i \in 1..Len(NameOrder) : NameOrder[i] = n

PromoRow(st, u) ==
    [store_name |-> st.name, category |-> st.category, addr |-> st.addr,
     website |-> st.website, promo_url |-> u, priority |-> priority_score(u)]

\* df.drop_duplicates(subset=["promo_url"]) keeping the last of each group
DropDuplicatesKeepLast(df) ==
    LET idx == {i \in 1..Len(df) : \A j \in (i + 1)..Len(df) : df[j].promo_url # df[i].promo_url}
        F[k \in 0..Len(df)] ==
            IF k = 0 THEN <<>> ELSE IF k \in idx THEN Append(F[k - 1], df[k]) ELSE F[k - 1]
    IN F[Len(df)]

\* df.drop_duplicates(subset=["promo_url"]) with nothing dropped
DropDuplicatesNone(df) == df

\* df.drop_duplicates(subset=["promo_url"]): pandas' default keep="first"
DropDuplicates(df) ==
    LET idx == {i \in 1..Len(df) : \A j \in 1..(i - 1) : df[j].promo_url # df[i].promo_url}
        F[k \in 0..Len(df)] ==
            IF k = 0 THEN <<>> ELSE IF k \in idx THEN Append(F[k - 1], df[k]) ELSE F[k - 1]
    IN F[Len(df)]

\* the sort key ["priority", "store_name"], ascending=[False, True]: r1 strictly before r2
RowBefore(r1, r2) ==
    \/ r1.priority > r2.priority
    \/ r1.priority = r2.priority /\ NameRank(r1.store_name) < NameRank(r2.store_name)

\* an insertion that puts r before the rows with an equal key: a sort that is not stable
InsertUnstable(sorted, r) ==
    LET later == {i \in 1..Len(sorted) : ~RowBefore(sorted[i], r)}
        pos == IF later = {} THEN Len(sorted) + 1
               ELSE CHOOSE i \in later : \A j \in later : i <= j
    IN SubSeq(sorted, 1, pos - 1) \o <<r>> \o SubSeq(sorted, pos, Len(sorted))

\* df.sort_values(..., kind="stable"): insertion after every row that is not after r
InsertStable(sorted, r) ==
    LET later == {i \in 1..Len(sorted) : RowBefore(r, sorted[i])}
        pos == IF later = {} THEN Len(sorted) + 1
               ELSE CHOOSE i \in later : \A j \in later : i <= j
    IN SubSeq(sorted, 1, pos - 1) \o <<r>> \o SubSeq(sorted, pos, Len(sorted))

SortValues(df) ==
    LET F[k \in 0..Len(df)] == IF k = 0 THEN <<>> ELSE InsertStable(F[k - 1], df[k])
    IN F[Len(df)]

\* DataFrame.to_csv / pandas.read_csv, cell by cell: a NaN is written as the empty
\* field, and an empty field (or one of the NA spellings) is read as NaN
NaSpellings == {"", "nan", "NaN", "NA", "N/A", "null", "None"}
ToCsvStr(x) == IF x = "<NaN>" THEN "" ELSE x
ReadCsvStr(x) == IF x \in NaSpellings THEN "<NaN>" ELSE x
ToCsvUrl(u) == IF u = NaNVal THEN <<>> ELSE u
ReadCsvUrl(u) == IF u = <<>> \/ (Len(u) = 1 /\ u[1] \in NaSpellings) THEN NaNVal ELSE u

to_csv(df) ==
    [i \in 1..Len(df) |->
        [store_name |-> ToCsvStr(df[i].store_name), category |-> ToCsvStr(df[i].category),
         addr |-> ToCsvStr(df[i].addr), website |-> ToCsvUrl(df[i].website),
         promo_url |-> ToCsvUrl(df[i].promo_url), priority |-> df[i].priority]]

read_csv(file) ==
    [i \in 1..Len(file) |->
        [store_name |-> ReadCsvStr(file[i].store_name), category |-> ReadCsvStr(file[i].category),
         addr |-> ReadCsvStr(file[i].addr), website |-> ReadCsvUrl(file[i].website),
         promo_url |-> ReadCsvUrl(file[i].promo_url), priority |-> file[i].priority]]

\* n = min(MAX_STORES, total)
NumStores == IF Len(stores) < MAX_STORES THEN Len(stores) ELSE MAX_STORES

\* main: read_csv, then stores = stores.head(n)
PdReadStores ==
    /\ pd_pc = "start"
    /\ stores' = Take(stores, NumStores)
    /\ pd_pc' = "loop"
    /\ UNCHANGED <<pd_i, pd_k, base, found, promo_urls, rows, promo_csv, pd_req, pd_resp,
                   pd_anyok, op_vars, ex_vars, aux_vars>>

\* ---- main, one store: the loop header and the entry of discover_for_site
PdStartStore ==
    /\ pd_pc = "loop"
    /\ pd_i <= NumStores
    /\ LET nb == normalize_base(Str(stores[pd_i].website))
       IN /\ pd_pc' = IF nb.raised THEN "crashed"
                      ELSE IF nb.value = <<>> THEN "rows" ELSE "probe"
          /\ base' = nb.value
    /\ found' = {}
    /\ promo_urls' = <<>>
    /\ pd_k' = 1
    /\ pd_req' = <<>>
    /\ pd_resp' = NoResp
    /\ pd_anyok' = FALSE
    /\ UNCHANGED <<stores, pd_i, rows, promo_csv, op_vars, ex_vars, aux_vars>>

\* discover_for_site 1): one path of COMMON_PATHS
PdProbe ==
    /\ pd_pc = "probe"
    /\ LET u == urljoin(base, <<COMMON_PATHS[pd_k]>>)
       IN \E resp \in Responses(u, {<<>>}) :
            /\ found' = IF head_ok(resp) THEN found \cup {u} ELSE found
            /\ pd_req' = Append(pd_req, u)
            /\ pd_resp' = resp
            /\ pd_anyok' = (pd_anyok \/ (~resp.exc /\ resp.status < 400))
    /\ IF pd_k < Len(COMMON_PATHS)
       THEN pd_k' = pd_k + 1 /\ pd_pc' = "probe"
       ELSE pd_k' = 1 /\ pd_pc' = "sitemap"
    /\ UNCHANGED <<stores, pd_i, base, promo_urls, rows, promo_csv, op_vars, ex_vars, aux_vars>>

\* discover_for_site 2): one sitemap file of fetch_sitemap_hits
PdSitemap ==
    /\ pd_pc = "sitemap"
    /\ LET sm_url == urljoin(base, <<SitemapFiles[pd_k]>>)
       IN \E resp \in Responses(sm_url, SitemapBodies) :
            /\ found' = found \cup SitemapHits(base, resp)
            /\ pd_req' = Append(pd_req, sm_url)
            /\ pd_resp' = resp
            /\ pd_anyok' = (pd_anyok \/ (~resp.exc /\ resp.status < 400))
    /\ IF pd_k < Len(SitemapFiles)
       THEN pd_k' = pd_k + 1 /\ pd_pc' = "sitemap"
       ELSE pd_k' = 1 /\ pd_pc' = "homepage"
    /\ UNCHANGED <<stores, pd_i, base, promo_urls, rows, promo_csv, op_vars, ex_vars, aux_vars>>

\* discover_for_site 3) and its end: the homepage scan, then the sorted, capped list
PdHomepage ==
    /\ pd_pc = "homepage"
    /\ \E resp \in Responses(base, HomepageBodies) :
            /\ found' = found \cup HomepageHits(base, resp)
            /\ pd_req' = Append(pd_req, base)
            /\ pd_resp' = resp
            /\ pd_anyok' = (pd_anyok \/ (~resp.exc /\ resp.status < 400))
    /\ promo_urls' = Take(Sorted(found'), MAX_PROMO_URLS_PER_STORE)
    /\ pd_pc' = "rows"
    /\ UNCHANGED <<stores, pd_i, pd_k, base, rows, promo_csv, op_vars, ex_vars, aux_vars>>

\* main: the rows of this store, the pacing sleep, on to the next store
PdAppendRows ==
    /\ pd_pc = "rows"
    /\ rows' = rows \o [j \in 1..Len(promo_urls) |-> PromoRow(stores[pd_i], promo_urls[j])]
    /\ pd_i' = pd_i + 1
    /\ pd_pc' = "loop"
    /\ base' = <<>>
    /\ found' = {}
    /\ pd_k' = 1
    /\ pd_req' = <<>>
    /\ pd_resp' = NoResp
    /\ pd_anyok' = FALSE
    /\ UNCHANGED <<stores, promo_urls, promo_csv, op_vars, ex_vars, aux_vars>>

\* main after the loop: drop_duplicates, sort_values, to_csv
PdFinish ==
    /\ pd_pc = "loop"
    /\ pd_i > NumStores
    /\ promo_csv' = IF rows = <<>> THEN <<>> ELSE to_csv(SortValues(DropDuplicates(rows)))
    /\ pd_pc' = "done"
    /\ UNCHANGED <<stores, pd_i, pd_k, base, found, promo_urls, rows, pd_req, pd_resp,
                   pd_anyok, op_vars, ex_vars, aux_vars>>

NextDiscover ==
    \/ PdReadStores
    \/ PdStartStore
    \/ PdProbe
    \/ PdSitemap
    \/ PdHomepage
    \/ PdAppendRows
    \/ PdFinish

InitDiscover ==
    /\ op_pc = "idle"
    /\ tries = 0
    /\ attempt = 0
    /\ last_err = NoneVal
    /\ op_trace = <<>>
    /\ op_out = NoneVal
    /\ stores \in SeqsUpTo(StoreUniverse, MaxStoreRows)
    /\ pd_pc = "start"
    /\ pd_i = 1
    /\ pd_k = 1
    /\ base = <<>>
    /\ found = {}
    /\ promo_urls = <<>>
    /\ rows = <<>>
    /\ promo_csv = <<>>
    /\ pd_req = <<>>
    /\ pd_resp = NoResp
    /\ pd_anyok = FALSE
    /\ ex_pc = "idle"
    /\ promos = <<>>
    /\ ex_i = 0
    /\ deals = <<>>
    /\ ex_trace = <<>>
    /\ ex_text = <<>>
    /\ ef_pc = "idle"
    /\ xlsx = [columns |-> <<>>, data |-> <<>>]
    /\ ef_i = 0
    /\ ef_rows = <<>>
    /\ feed = [written |-> FALSE, items |-> <<>>]
    /\ sb_pc = "idle"
    /\ sb_run = 0
    /\ sb_t = 0
    /\ history = [exists |-> FALSE, ids |-> <<>>]
    /\ previous_deal_ids = {}
    /\ all_current_deals = <<>>
    /\ new_deals = <<>>
    /\ sb_alert = ""
    /\ sb_before = {}

SpecDiscover == InitDiscover /\ [][NextDiscover]_vars

-----------------------------------------------------------------------------
(* extract_deals.py *)

MaxPromoRows == 2      \* rows of a promo_urls.csv given directly to extract_deals

\* Page texts (soup.get_text(" ")), token by token
TextWas == <<"Was", " ", "€", "20.00", " ", "Now", " ", "€", "15.50", ",", " ",
             "save", " ", "22", "%">>
TextOnly == <<"\n", "Only", "\n", " ", "£", " ", "9,99">>
TextPlain == <<"Big", " ", "sale", " ", "5", " ", "%", " ", "off">>
TextEmpty == <<>>
TextTwice == <<"€", "5", " ", "€", "5">>

CurrencyToks == {"€", "£"}
NumberToks == {"20.00", "15.50", "9,99", "5", "22"}

\* clean_text: re.sub(r"\s+", " ", s).strip()
RECURSIVE CollapseSpace(_)
CollapseSpace(t) ==
    IF t = <<>> THEN <<>>
    ELSE IF Head(t) \in SpaceToks
         THEN <<" ">> \o CollapseSpace(LStrip(t))
         ELSE <<Head(t)>> \o CollapseSpace(Tail(t))
clean_text(t) == Strip(CollapseSpace(t))

\* PRICE_RE.findall(text): the pattern has one capturing group, (€|\£), so findall
\* gives what that group matched for every match of the whole pattern
RECURSIVE PRICE_RE_findall(_)
PRICE_RE_findall(t) ==
    IF t = <<>> THEN <<>>
    ELSE LET rest == Tail(t)
             num == IF rest # <<>> /\ Head(rest) \in SpaceToks THEN Tail(rest) ELSE rest
         IN IF Head(t) \in CurrencyToks /\ num # <<>> /\ Head(num) \in NumberToks
            THEN <<Head(t)>> \o PRICE_RE_findall(Tail(num))
            ELSE PRICE_RE_findall(rest)

\* re.sub(r"[^\d\.]", "", p)
DigitsAndDots(p) ==
    CASE p \in CurrencyToks -> ""
      [] p = "9,99" -> "999"
      [] OTHER -> p

\* float(num), in cents; float("") raises ValueError
FloatOk(num) == num \in {"20.00", "15.50", "999", "5", "22"}
Float(num) ==
    CASE num = "20.00" -> 2000
      [] num = "15.50" -> 1550
      [] num = "999" -> 99900
      [] num = "5" -> 500
      [] num = "22" -> 2200
      [] OTHER -> 0

RECURSIVE SortedInts(_)
SortedInts(S) ==
    IF S = {} THEN <<>>
    ELSE LET m == CHOOSE x \in S : \A y \in S : x <= y
         IN <<m>> \o SortedInts(S \ {m})

\* extract_prices: sorted(set(vals)), a value that fails to parse is passed over
extract_prices(text) ==
    LET prices == PRICE_RE_findall(text)
        vals == {Float(DigitsAndDots(prices[i])) :
                    i \in {j \in 1..Len(prices) : FloatOk(DigitsAndDots(prices[j]))}}
    IN SortedInts(vals)

\* extract_discount: PERCENT_RE.search, \b(\d{1,2})\s?% ; <<>> is None
PercentToks == {"5", "22"}
PercentValue(tok) == IF tok = "22" THEN 22 ELSE 5
RECURSIVE extract_discount(_)
extract_discount(t) ==
    IF t = <<>> THEN <<>>
    ELSE LET rest == Tail(t)
             pct == IF rest # <<>> /\ Head(rest) \in SpaceToks THEN Tail(rest) ELSE rest
         IN IF Head(t) \in PercentToks /\ pct # <<>> /\ Head(pct) = "%"
            THEN <<PercentValue(Head(t))>>
            ELSE extract_discount(rest)

\* the pages the web serves at a url: by the path of the url
PagesFor(u) ==
    IF \E i \in 1..Len(u) : u[i] = "/deals" THEN {TextWas, TextTwice}
    ELSE IF \E i \in 1..Len(u) : u[i] = "/sale" THEN {TextOnly}
    ELSE IF \E i \in 1..Len(u) : u[i] = "/offers" THEN {TextPlain}
    ELSE {TextEmpty}

\* main, lines 71-78: old_price and new_price from the price list; <<>> is None
OldPrice(prices) == IF Len(prices) >= 2 THEN <<prices[Len(prices)]>> ELSE <<>>
NewPrice(prices) == IF Len(prices) >= 1 THEN <<prices[1]>> ELSE <<>>

Deal(row, text) ==
    [store_name |-> row.store_name, category |-> row.category,
     old_price |-> OldPrice(extract_prices(text)),
     new_price |-> NewPrice(extract_prices(text)),
     discount_percent |-> extract_discount(text),
     source_url |-> row.promo_url, website |-> row.website, needs_review |-> TRUE]

\* main: pd.read_csv("promo_urls.csv")
ExStart ==
    /\ ex_pc = "start"
    /\ pd_pc \in {"done", "idle"}
    /\ promos' = read_csv(promo_csv)
    /\ ex_i' = 1
    /\ ex_pc' = "loop"
    /\ UNCHANGED <<deals, ex_trace, ex_text, op_vars, pd_vars, aux_vars>>

\* get(promo_url): a request goes out ("fetch") unless requests rejects the url
\* before sending anything ("rejected": a missing cell, a url without host)
FetchEv(u) == IF HasHost(u) THEN "fetch" ELSE "rejected"

\* main, one promo row: the fetch, and on a status below 400 the record and the sleep
ExFetch ==
    /\ ex_pc = "loop"
    /\ ex_i <= Len(promos)
    /\ \E resp \in Responses(promos[ex_i].promo_url, PagesFor(promos[ex_i].promo_url)) :
          IF resp.exc \/ resp.status >= 400
          THEN /\ ex_trace' = Append(ex_trace, FetchEv(promos[ex_i].promo_url))
               /\ UNCHANGED <<deals, ex_text>>
          ELSE /\ ex_text' = clean_text(resp.body)
               /\ deals' = Append(deals, Deal(promos[ex_i], ex_text'))
               /\ ex_trace' = ex_trace \o <<"fetch", "sleep">>
    /\ ex_i' = ex_i + 1
    /\ UNCHANGED <<ex_pc, promos, op_vars, pd_vars, aux_vars>>

\* main after the loop: deals.csv is written
ExFinish ==
    /\ ex_pc = "loop"
    /\ ex_i > Len(promos)
    /\ ex_pc' = "done"
    /\ UNCHANGED <<promos, ex_i, deals, ex_trace, ex_text, op_vars, pd_vars, aux_vars>>

NextExtract ==
    \/ ExStart
    \/ ExFetch
    \/ ExFinish

PromoRowUniverse ==
    {[store_name |-> "Alpha", category |-> "shop=clothes", addr |-> "2 High St",
      website |-> <<"https://", "a.com", "/shop">>,
      promo_url |-> <<"https://", "a.com", "/deals">>, priority |-> 5],
     [store_name |-> "Beta", category |-> "shop=shoes", addr |-> "1 Main St",
      website |-> <<" ", "a.com">>,
      promo_url |-> <<"https://", "a.com", "/deals">>, priority |-> 5],
     [store_name |-> "Beta", category |-> "shop=shoes", addr |-> "1 Main St",
      website |-> <<" ", "a.com">>,
      promo_url |-> <<"https://", "a.com", "/sale">>, priority |-> 3],
     [store_name |-> "Alpha", category |-> "shop=clothes", addr |-> "",
      website |-> <<"https://", "a.com", "/shop">>,
      promo_url |-> <<"https://", "a.com", "/offers">>, priority |-> 5],
     [store_name |-> "Zeta", category |-> "", addr |-> "",
      website |-> <<>>, promo_url |-> <<>>, priority |-> 0]}

InitExtract ==
    /\ op_pc = "idle"
    /\ tries = 0
    /\ attempt = 0
    /\ last_err = NoneVal
    /\ op_trace = <<>>
    /\ op_out = NoneVal
    /\ stores = <<>>
    /\ pd_pc = "idle"
    /\ pd_i = 0
    /\ pd_k = 0
    /\ base = <<>>
    /\ found = {}
    /\ promo_urls = <<>>
    /\ rows = <<>>
    /\ promo_csv \in SeqsUpTo(PromoRowUniverse, MaxPromoRows)
    /\ pd_req = <<>>
    /\ pd_resp = NoResp
    /\ pd_anyok = FALSE
    /\ ex_pc = "start"
    /\ promos = <<>>
    /\ ex_i = 0
    /\ deals = <<>>
    /\ ex_trace = <<>>
    /\ ex_text = <<>>
    /\ ef_pc = "idle"
    /\ xlsx = [columns |-> <<>>, data |-> <<>>]
    /\ ef_i = 0
    /\ ef_rows = <<>>
    /\ feed = [written |-> FALSE, items |-> <<>>]
    /\ sb_pc = "idle"
    /\ sb_run = 0
    /\ sb_t = 0
    /\ history = [exists |-> FALSE, ids |-> <<>>]
    /\ previous_deal_ids = {}
    /\ all_current_deals = <<>>
    /\ new_deals = <<>>
    /\ sb_alert = ""
    /\ sb_before = {}

SpecExtract == InitExtract /\ [][NextExtract]_vars

\* run.py: promo_discover.py, then extract_deals.py on the promo_urls.csv it wrote
NextPipeline ==
    \/ PdReadStores
    \/ PdStartStore
    \/ PdProbe
    \/ PdSitemap
    \/ PdHomepage
    \/ PdAppendRows
    \/ PdFinish
    \/ ExStart
    \/ ExFetch
    \/ ExFinish

InitPipeline ==
    /\ op_pc = "idle"
    /\ tries = 0
    /\ attempt = 0
    /\ last_err = NoneVal
    /\ op_trace = <<>>
    /\ op_out = NoneVal
    /\ stores \in SeqsUpTo(StoreUniverse, MaxStoreRows)
    /\ pd_pc = "start"
    /\ pd_i = 1
    /\ pd_k = 1
    /\ base = <<>>
    /\ found = {}
    /\ promo_urls = <<>>
    /\ rows = <<>>
    /\ promo_csv = <<>>
    /\ pd_req = <<>>
    /\ pd_resp = NoResp
    /\ pd_anyok = FALSE
    /\ ex_pc = "start"
    /\ promos = <<>>
    /\ ex_i = 0
    /\ deals = <<>>
    /\ ex_trace = <<>>
    /\ ex_text = <<>>
    /\ ef_pc = "idle"
    /\ xlsx = [columns |-> <<>>, data |-> <<>>]
    /\ ef_i = 0
    /\ ef_rows = <<>>
    /\ feed = [written |-> FALSE, items |-> <<>>]
    /\ sb_pc = "idle"
    /\ sb_run = 0
    /\ sb_t = 0
    /\ history = [exists |-> FALSE, ids |-> <<>>]
    /\ previous_deal_ids = {}
    /\ all_current_deals = <<>>
    /\ new_deals = <<>>
    /\ sb_alert = ""
    /\ sb_before = {}

SpecPipeline == InitPipeline /\ [][NextPipeline]_vars

-----------------------------------------------------------------------------
(* Claims about the pipeline: promo_discover.py, then extract_deals.py *)

Netloc(u) == Lower(urlparse(u).netloc)

\* C3: over one run of promo_discover.main followed by extract_deals.main, no two
\* extracted deal records have the same source_url.
C3_DealsUniqueBySourceUrl ==
    \A i, j \in 1..Len(deals) : i # j => deals[i].source_url # deals[j].source_url

\* C3 witness: two stores produced the same promo url, the run is over, and that
\* url was extracted next to another one.
C3_Witness ==
    /\ ex_pc = "done"
    /\ Len(deals) >= 2
    /\ \E i, j \in 1..Len(rows) :
          /\ rows[i].store_name # rows[j].store_name
          /\ rows[i].promo_url = rows[j].promo_url
          /\ \E d \in 1..Len(deals) : deals[d].source_url = rows[i].promo_url

FirstIndex(df, u) == CHOOSE i \in 1..Len(df) :
    df[i].promo_url = u /\ \A j \in 1..(i - 1) : df[j].promo_url # u
LastIndex(df, u) == CHOOSE i \in 1..Len(df) :
    df[i].promo_url = u /\ \A j \in (i + 1)..Len(df) : df[j].promo_url # u
SameContext(written, row) ==
    /\ written.store_name = ToCsvStr(row.store_name)
    /\ written.category = ToCsvStr(row.category)
    /\ written.addr = ToCsvStr(row.addr)
    /\ written.website = ToCsvUrl(row.website)

-----------------------------------------------------------------------------
(* Claims about extract_deals.py *)

\* the numeric value, in cents, of a currency-prefixed amount as it is written
AmountValue(tok) ==
    CASE tok = "20.00" -> 2000
      [] tok = "15.50" -> 1550
      [] tok = "9,99" -> 999
      [] tok = "5" -> 500
      [] tok = "22" -> 2200
      [] OTHER -> 0
\* the values of the amounts in a text: a currency sign, an optional space, a number
Amounts(t) ==
    {AmountValue(t[i + 1]) : i \in {k \in 1..(Len(t) - 1) :
                                      t[k] \in CurrencyToks /\ t[k + 1] \in NumberToks}}
    \cup
    {AmountValue(t[i + 2]) : i \in {k \in 1..(Len(t) - 2) :
                                      /\ t[k] \in CurrencyToks
                                      /\ t[k + 1] \in SpaceToks
                                      /\ t[k + 2] \in NumberToks}}
MaxOf(S) == CHOOSE x \in S : \A y \in S : y <= x
MinOf(S) == CHOOSE x \in S : \A y \in S : x <= y

\* C5: the record appended for a page has old_price the largest and new_price the
\* smallest of the amounts in its text when there are two or more distinct ones,
\* new_price the only one when there is one, and neither when there is none; the
\* text "Was €20.00 Now €15.50, save 22%" gives 20.00, 15.50 and 22.
C5_PricesFromAmounts ==
    deals # <<>> =>
        LET d == deals[Len(deals)]
            A == Amounts(ex_text)
        IN /\ Cardinality(A) >= 2 => d.old_price = <<MaxOf(A)>> /\ d.new_price = <<MinOf(A)>>
           /\ Cardinality(A) = 1 => d.old_price = <<>> /\ d.new_price = <<MinOf(A)>>
           /\ Cardinality(A) = 0 => d.old_price = <<>> /\ d.new_price = <<>>
           /\ ex_text = TextWas =>
                 /\ d.old_price = <<2000>>
                 /\ d.new_price = <<1550>>
                 /\ d.discount_percent = <<22>>

\* C10: between two consecutive page fetches a pacing sleep is performed, whatever
\* the outcome of the earlier fetch.
C10_SleepBetweenFetches ==
    \A p, q \in 1..Len(ex_trace) :
        (p < q /\ ex_trace[p] = "fetch" /\ ex_trace[q] = "fetch") =>
            \E m \in (p + 1)..(q - 1) : ex_trace[m] = "sleep"

-----------------------------------------------------------------------------
(* Claims about discover_for_site *)

InDiscovery == pd_pc \in {"probe", "sitemap", "homepage", "rows"}
CurrentWebsite == Str(stores[pd_i].website)
\* a website string the url parser rejects, or one without a host
Malformed(w) ==
    LET s == Strip(w)
        u == IF StartsWithScheme(s) THEN s ELSE <<"https://">> \o s
    IN s # <<>> /\ (urlparse(u).raised \/ urlparse(u).netloc = <<>>)

\* C7: normalize_base never raises; for a malformed website it gives the empty
\* result, and discover_for_site returns no candidate without issuing a request.
C7_NormalizeBaseNeverRaises ==
    /\ pd_pc # "crashed"
    /\ (InDiscovery /\ Malformed(CurrentWebsite)) =>
          /\ base = <<>>
          /\ pd_req = <<>>
          /\ promo_urls = <<>>

\* C8: every url discover_for_site holds or returns has the host, compared without
\* case, of normalize_base(website); so has every row main appended.
C8_SameHostAsBase ==
    /\ InDiscovery =>
          \A u \in found \cup Range(promo_urls) :
              Netloc(u) = Netloc(normalize_base(CurrentWebsite).value)
    /\ \A i \in 1..Len(rows) :
          Netloc(rows[i].promo_url) = Netloc(normalize_base(Str(rows[i].website)).value)

\* C8 witness: discovery of a store ended with a sitemap url whose host differs
\* in case only, after a homepage that offered a link to another host.
C8_Witness ==
    /\ pd_pc = "rows"
    /\ <<"https://", "A.com", "/deals">> \in found
    /\ pd_resp.body = <<(<<"https://", "evil.com", "/sale">>)>>
    /\ promo_urls # <<>>

RequestFailed(resp) == resp.exc \/ resp.status >= 400

\* C9: a failed request never raises out of discover_for_site (the only crash is
\* the one of normalize_base, before any request), never removes a url found
\* before it and never stops the later requests from being issued and from
\* contributing; when all requests of a store failed the store has no candidate,
\* and main goes on to the next store.
C9_FailuresAreContained ==
    [][ /\ (pd_pc' = "crashed") => (pd_pc = "loop" /\ pd_req' = <<>>)
        /\ (pd_pc \in {"probe", "sitemap", "homepage"}) =>
              /\ found \subseteq found'
              /\ pd_pc' \in {"probe", "sitemap", "homepage", "rows"}
              /\ Len(pd_req') = Len(pd_req) + 1
              /\ (pd_pc = "probe" /\ ~RequestFailed(pd_resp')) => pd_resp'.url \in found'
              /\ (pd_pc = "sitemap" /\ ~RequestFailed(pd_resp')) =>
                    \A i \in 1..Len(pd_resp'.body) :
                        LET u == Strip(pd_resp'.body[i])
                        IN (Netloc(u) = Netloc(base) /\ ~urlparse(u).raised /\ KEYWORDS(u))
                              => SplitFragment(u) \in found'
              /\ (pd_pc = "homepage" /\ ~RequestFailed(pd_resp')) =>
                    \A i \in 1..Len(pd_resp'.body) :
                        (pd_resp'.body[i] = <<"/offers", "#top">>)
                              => urljoin(base, <<"/offers">>) \in found'
        /\ (pd_pc' = "rows" /\ base' # <<>>) =>
              /\ Len(pd_req') = Len(COMMON_PATHS) + Len(SitemapFiles) + 1
              /\ ~pd_anyok' => (found' = {} /\ promo_urls' = <<>>)
        /\ (pd_pc = "rows") => (pd_pc' = "loop" /\ pd_i' = pd_i + 1)
        /\ (pd_pc = "rows" /\ ~pd_anyok) => rows' = rows
      ]_vars

\* C9 witness: the homepage request raised, and the store still has a probed
\* path and a sitemap url among its candidates, every request having been issued.
C9_Witness ==
    /\ pd_pc = "rows"
    /\ pd_resp.exc
    /\ Len(pd_req) = Len(COMMON_PATHS) + Len(SitemapFiles) + 1
    /\ urljoin(base, <<"/deals">>) \in found
    /\ urljoin(base, <<"/sale">>) \in found

-----------------------------------------------------------------------------
(* Claims about the table promo_discover.main writes *)

\* C11: the written candidate table is ordered by priority descending, rows of
\* equal priority by store name ascending, and rows equal in both are in the
\* order in which they were produced.
C11_OrderedAndStable ==
    pd_pc = "done" =>
        \A i, j \in 1..Len(promo_csv) :
            i < j =>
                /\ promo_csv[i].priority >= promo_csv[j].priority
                /\ promo_csv[i].priority = promo_csv[j].priority =>
                      NameRank(promo_csv[i].store_name) <= NameRank(promo_csv[j].store_name)
                /\ (/\ promo_csv[i].priority = promo_csv[j].priority
                    /\ promo_csv[i].store_name = promo_csv[j].store_name) =>
                      FirstIndex(rows, promo_csv[i].promo_url)
                          < FirstIndex(rows, promo_csv[j].promo_url)

\* C11 witness: a written table of three rows or more in which two rows have the
\* same priority and store name, one row has another priority, and two rows of
\* one priority have different store names.
C11_Witness ==
    /\ pd_pc = "done"
    /\ Len(promo_csv) >= 3
    /\ \E i, j \in 1..Len(promo_csv) :
          /\ i < j
          /\ promo_csv[i].priority = promo_csv[j].priority
          /\ promo_csv[i].store_name = promo_csv[j].store_name
    /\ \E i, j \in 1..Len(promo_csv) :
          /\ promo_csv[i].priority = promo_csv[j].priority
          /\ promo_csv[i].store_name # promo_csv[j].store_name
    /\ \E i, j \in 1..Len(promo_csv) : promo_csv[i].priority # promo_csv[j].priority

\* C12 as stated: a store whose website cell is missing has no request made for
\* it and no candidate row produced for it.
C12_MissingWebsiteContributesNothing ==
    /\ (InDiscovery /\ stores[pd_i].website = NaNVal) =>
          /\ pd_req = <<>>
          /\ found = {}
          /\ promo_urls = <<>>
    /\ \A i \in 1..Len(rows) : rows[i].website # NaNVal

-----------------------------------------------------------------------------
(* Claims about the waits of overpass_post *)

\* C13 as stated: a backoff wait follows a failed attempt only when another
\* attempt follows it: when overpass_post raises after M failed attempts it has
\* waited exactly M-1 times, each wait longer than the one before, and the last
\* thing it did before raising was the failed request, not a wait.
C13_WaitsOnlyBetweenAttempts ==
    (op_pc = "raised" /\ Len(Posts(op_trace)) >= 1) =>
        /\ Len(Sleeps(op_trace)) = Len(Posts(op_trace)) - 1
        /\ op_trace[Len(op_trace)].ev = "post"
        /\ \A i, j \in 1..Len(Sleeps(op_trace)) :
              i < j => Sleeps(op_trace)[i].dur < Sleeps(op_trace)[j].dur

-----------------------------------------------------------------------------
(* export_feed.py *)

\* Python values of a cell or an item field: None, True, False; NaNVal is the
\* float NaN pandas gives for an empty cell, <<>> is the empty string
NoneItem == <<"<None>">>
TrueVal == <<"<True>">>
FalseVal == <<"<False>">>
NoCol == "<None>"

\* COLUMN_MAP, for the fields the export decides on
COLUMN_MAP(k) ==
    CASE k = "store_name" -> <<"store_name", "store", "merchant", "shop">>
      [] k = "deal_title" -> <<"deal_title", "title", "name", "product", "deal">>
      [] k = "source_url" -> <<"source_url", "url", "promo_url", "link">>
      [] k = "publish" -> <<"publish", "approved", "is_published">>
      [] k = "needs_review" -> <<"needs_review", "review", "flagged">>

\* pick_col: cols maps each lower-cased column name to the column (the last one
\* of that lower-cased name); the first key found in cols gives the column
pick_col(df, keys) ==
    LET n == Len(df.columns)
        cols == {LowerTok(df.columns[i]) : i \in 1..n}
        colOf(l) == df.columns[CHOOSE i \in 1..n :
                                  /\ LowerTok(df.columns[i]) = l
                                  /\ \A j \in (i + 1)..n : LowerTok(df.columns[j]) # l]
        hits == {m \in 1..Len(keys) : LowerTok(keys[m]) \in cols}
    IN IF hits = {} THEN NoCol
       ELSE colOf(LowerTok(keys[CHOOSE m \in hits : \A m2 \in hits : m <= m2]))

TrueWords == {"true", "1", "yes", "y", "approved", "publish"}
FalseWords == {"false", "0", "no", "n", "reject", "rejected"}

as_bool(x) ==
    IF x = NaNVal THEN NoneItem
    ELSE IF x \in {TrueVal, FalseVal} THEN x
    ELSE LET s == Lower(Strip(x))
         IN IF Len(s) = 1 /\ s[1] \in TrueWords THEN TrueVal
            ELSE IF Len(s) = 1 /\ s[1] \in FalseWords THEN FalseVal
            ELSE NoneItem

\* Python's "not v": None, False and the empty string are false; every other
\* value is true, the float NaN included (bool(float("nan")) is True)
Not(v) == v \in {NoneItem, FalseVal, <<>>}

\* one pass of the loop body of main over row ef_i
EfRow ==
    /\ ef_pc = "loop"
    /\ ef_i <= Len(xlsx.data)
    /\ LET r == xlsx.data[ef_i]
           col(k) == pick_col(xlsx, COLUMN_MAP(k))
           get(k) == IF col(k) # NoCol THEN r[col(k)] ELSE NoneItem
           publish_val == IF col("publish") # NoCol THEN as_bool(r[col("publish")])
                          ELSE NoneItem
           needs_review_val == IF col("needs_review") # NoCol
                               THEN as_bool(r[col("needs_review")]) ELSE NoneItem
           item == [store_name |-> get("store_name"),
                    title |-> get("deal_title"),
                    source_url |-> get("source_url"),
                    publish |-> TrueVal,
                    needs_review |-> IF col("publish") # NoCol THEN <<"<unset>">>
                                     ELSE IF needs_review_val = NoneItem THEN TrueVal
                                     ELSE needs_review_val]
           continue == \/ col("publish") # NoCol /\ publish_val # TrueVal
                       \/ Not(item.title)
                       \/ Not(item.source_url)
       IN ef_rows' = IF continue THEN ef_rows ELSE Append(ef_rows, item)
    /\ ef_i' = ef_i + 1
    /\ UNCHANGED <<ef_pc, xlsx, feed, op_vars, pd_vars, ex_vars, sb_vars>>

\* after the loop: json.dump of the items
EfWrite ==
    /\ ef_pc = "loop"
    /\ ef_i > Len(xlsx.data)
    /\ feed' = [written |-> TRUE, items |-> ef_rows]
    /\ ef_pc' = "done"
    /\ UNCHANGED <<xlsx, ef_i, ef_rows, op_vars, pd_vars, ex_vars, sb_vars>>

NextExport ==
    \/ EfRow
    \/ EfWrite

\* the spreadsheets of the model: a header row and the cells each column may hold
XlsxHeaders ==
    {<<"store", "Title", "url">>,
     <<"Title", "url", "publish">>,
     <<"title", "Title", "link", "review">>,
     <<"store", "url">>}

CellsOf(c) ==
    CASE LowerTok(c) = "title" -> {NaNVal, <<>>, <<"Shoes">>}
      [] c \in {"url", "link"} -> {NaNVal, <<"https://", "a.com", "/deals">>}
      [] c = "publish" -> {NaNVal, TrueVal, <<" ", "YES">>, <<"no">>}
      [] c = "review" -> {NaNVal, FalseVal}
      [] OTHER -> {<<"Alpha">>}

XlsxRows(h) ==
    {r \in [Range(h) -> UNION {CellsOf(c) : c \in Range(h)}] :
        \A c \in Range(h) : r[c] \in CellsOf(c)}

InitExport ==
    /\ op_pc = "idle"
    /\ tries = 0
    /\ attempt = 0
    /\ last_err = NoneVal
    /\ op_trace = <<>>
    /\ op_out = NoneVal
    /\ stores = <<>>
    /\ pd_pc = "idle"
    /\ pd_i = 0
    /\ pd_k = 0
    /\ base = <<>>
    /\ found = {}
    /\ promo_urls = <<>>
    /\ rows = <<>>
    /\ promo_csv = <<>>
    /\ pd_req = <<>>
    /\ pd_resp = [url |-> <<>>, exc |-> FALSE, status |-> 0, body |-> <<>>]
    /\ pd_anyok = FALSE
    /\ ex_pc = "idle"
    /\ promos = <<>>
    /\ ex_i = 0
    /\ deals = <<>>
    /\ ex_trace = <<>>
    /\ ex_text = <<>>
    /\ \E h \in XlsxHeaders :
          \E d \in SeqsUpTo(XlsxRows(h), MaxXlsxRows) : xlsx = [columns |-> h, data |-> d]
    /\ ef_pc = "loop"
    /\ ef_i = 1
    /\ ef_rows = <<>>
    /\ feed = [written |-> FALSE, items |-> <<>>]
    /\ sb_pc = "idle"
    /\ sb_run = 0
    /\ sb_t = 0
    /\ history = [exists |-> FALSE, ids |-> <<>>]
    /\ previous_deal_ids = {}
    /\ all_current_deals = <<>>
    /\ new_deals = <<>>
    /\ sb_alert = ""
    /\ sb_before = {}

SpecExport == InitExport /\ [][NextExport]_vars

\* C14 as stated: every item of the written feed has a title and a source_url;
\* a row whose title cell or source_url cell is missing (None, the NaN of an
\* empty cell, or empty text) is not exported, with or without a publish column.
C14_ExportedItemsHaveTitleAndUrl ==
    \A i \in 1..Len(feed.items) :
        /\ feed.items[i].title \notin {NoneItem, NaNVal, <<>>}
        /\ feed.items[i].source_url \notin {NoneItem, NaNVal, <<>>}

-----------------------------------------------------------------------------
(* Scraperbot.py *)

STORE_TARGETS == <<[store |-> "Lidl UK", url |-> "https://www.lidl.co.uk/c/all-offers/c10000"]>>

\* a product container of the page: the text of its name tag and of its price
\* tag, NoneItem where select_one finds no such tag
Box(name, price) == [name |-> name, price |-> price]

\* what requests.get gives for the offers page: a RequestException (fail), or a
\* page with its product containers in document order
Page(fail, boxes) == [fail |-> fail, boxes |-> boxes]

Pages ==
    {Page(TRUE, <<>>),
     Page(FALSE, <<>>),
     Page(FALSE, <<Box(<<"Milk">>, <<"1.00">>)>>),
     Page(FALSE, <<Box(<<"Milk">>, <<"1.00">>), Box(<<" ", "Eggs">>, <<"2.00", "\n">>)>>),
     Page(FALSE, <<Box(<<"Eggs">>, <<"2.00">>), Box(<<"Milk", "-", "1L">>, <<"1.00">>)>>),
     Page(FALSE, <<Box(<<"Milk">>, <<"1L", "-", "1.00">>)>>),
     Page(FALSE, <<Box(<<"Milk">>, <<"1.00">>), Box(<<"Milk">>, <<"1.00">>)>>),
     Page(FALSE, <<Box(NoneItem, <<"1.00">>), Box(<<"Eggs">>, <<"2.00">>)>>)}

\* str.replace('\n', ' ')
ReplaceNewline(u) == [i \in 1..Len(u) |-> IF u[i] = "\n" THEN " " ELSE u[i]]

\* f"{target['store']}-{name}-{price}"
DealId(store, name, price) == <<store, "-">> \o name \o <<"-">> \o price

\* the dict appended for a container that has both tags
ScrapedDeal(target, box) ==
    LET name == Strip(box.name)
        price == Strip(ReplaceNewline(Strip(box.price)))
    IN [id |-> DealId(target.store, name, price), store |-> target.store,
        name |-> name, price |-> price, link |-> target.url]

RECURSIVE ParseBoxes(_, _)
ParseBoxes(target, boxes) ==
    IF boxes = <<>> THEN <<>>
    ELSE (IF Head(boxes).name # NoneItem /\ Head(boxes).price # NoneItem
          THEN <<ScrapedDeal(target, Head(boxes))>> ELSE <<>>)
         \o ParseBoxes(target, Tail(boxes))

scrape_site(target, page) == IF page.fail THEN <<>> ELSE ParseBoxes(target, page.boxes)

\* a history file is never read: every deal counts as unseen
load_previous_deals_none(file) == {}

\* set(json.load(f)) if the file exists, else set()
load_previous_deals(file) == IF file.exists THEN Range(file.ids) ELSE {}

\* json.dump of the ids of the deals, in order, duplicates included
save_current_deals(ds) == [exists |-> TRUE, ids |-> [i \in 1..Len(ds) |-> ds[i].id]]

SbLoad ==
    /\ sb_pc = "load"
    /\ all_current_deals' = <<>>
    /\ previous_deal_ids' = load_previous_deals(history)
    /\ sb_t' = 1
    /\ sb_pc' = "scrape"
    /\ UNCHANGED <<sb_run, history, new_deals, sb_alert, sb_before,
                   op_vars, pd_vars, ex_vars, ef_vars>>

\* one pass of "for target in STORE_TARGETS"
SbScrape ==
    /\ sb_pc = "scrape"
    /\ sb_t <= Len(STORE_TARGETS)
    /\ \E page \in Pages :
          all_current_deals' = all_current_deals \o scrape_site(STORE_TARGETS[sb_t], page)
    /\ sb_t' = sb_t + 1
    /\ UNCHANGED <<sb_pc, sb_run, history, previous_deal_ids, new_deals, sb_alert, sb_before,
                   op_vars, pd_vars, ex_vars, ef_vars>>

\* steps 3 and 4: new_deals and the alert that names them
SbCompare ==
    /\ sb_pc = "scrape"
    /\ sb_t > Len(STORE_TARGETS)
    /\ new_deals' = SelectSeq(all_current_deals, LAMBDA deal : deal.id \notin previous_deal_ids)
    /\ sb_alert' = IF new_deals' # <<>> THEN "New Supermarket Deals Alert"
                   ELSE "Daily Deal Check Complete"
    /\ sb_pc' = "save"
    /\ UNCHANGED <<sb_run, sb_t, history, previous_deal_ids, all_current_deals, sb_before,
                   op_vars, pd_vars, ex_vars, ef_vars>>

\* step 5
SbSave ==
    /\ sb_pc = "save"
    /\ history' = save_current_deals(all_current_deals)
    /\ sb_pc' = "ended"
    /\ UNCHANGED <<sb_run, sb_t, previous_deal_ids, all_current_deals, new_deals, sb_alert,
                   sb_before, op_vars, pd_vars, ex_vars, ef_vars>>

\* the next scheduled run: a new process, which finds the file the last one left
SbNextRun ==
    /\ sb_pc = "ended"
    /\ sb_run < MaxRuns
    /\ sb_run' = sb_run + 1
    /\ sb_before' = {all_current_deals[i].id : i \in 1..Len(all_current_deals)}
    /\ previous_deal_ids' = {}
    /\ all_current_deals' = <<>>
    /\ new_deals' = <<>>
    /\ sb_alert' = ""
    /\ sb_t' = 0
    /\ sb_pc' = "load"
    /\ UNCHANGED <<history, op_vars, pd_vars, ex_vars, ef_vars>>

NextBot ==
    \/ SbLoad
    \/ SbScrape
    \/ SbCompare
    \/ SbSave
    \/ SbNextRun

InitBot ==
    /\ op_pc = "idle"
    /\ tries = 0
    /\ attempt = 0
    /\ last_err = NoneVal
    /\ op_trace = <<>>
    /\ op_out = NoneVal
    /\ stores = <<>>
    /\ pd_pc = "idle"
    /\ pd_i = 0
    /\ pd_k = 0
    /\ base = <<>>
    /\ found = {}
    /\ promo_urls = <<>>
    /\ rows = <<>>
    /\ promo_csv = <<>>
    /\ pd_req = <<>>
    /\ pd_resp = [url |-> <<>>, exc |-> FALSE, status |-> 0, body |-> <<>>]
    /\ pd_anyok = FALSE
    /\ ex_pc = "idle"
    /\ promos = <<>>
    /\ ex_i = 0
    /\ deals = <<>>
    /\ ex_trace = <<>>
    /\ ex_text = <<>>
    /\ ef_pc = "idle"
    /\ xlsx = [columns |-> <<>>, data |-> <<>>]
    /\ ef_i = 0
    /\ ef_rows = <<>>
    /\ feed = [written |-> FALSE, items |-> <<>>]
    /\ sb_pc = "load"
    /\ sb_run = 1
    /\ sb_t = 0
    /\ history = [exists |-> FALSE, ids |-> <<>>]
    /\ previous_deal_ids = {}
    /\ all_current_deals = <<>>
    /\ new_deals = <<>>
    /\ sb_alert = ""
    /\ sb_before = {}

SpecBot == InitBot /\ [][NextBot]_vars

CurrentIds == {all_current_deals[i].id : i \in 1..Len(all_current_deals)}

\* C15: in every run the deals reported as new are exactly the scraped deals
\* whose id the previous run did not save (the ids that run scraped); when a run
\* ends, the saved ids are exactly the ids it scraped, the empty set when the
\* scrape failed; so a deal scraped in two consecutive runs is not reported as
\* new in the second.
C15_NewIffNotSavedByPreviousRun ==
    /\ sb_pc \in {"save", "ended"} =>
          /\ new_deals = SelectSeq(all_current_deals, LAMBDA deal : deal.id \notin sb_before)
          /\ \A i \in 1..Len(new_deals) : new_deals[i].id \notin sb_before
          /\ (sb_alert = "New Supermarket Deals Alert") <=> (CurrentIds \ sb_before # {})
    /\ sb_pc = "ended" =>
          /\ history.exists
          /\ Range(history.ids) = CurrentIds
    /\ sb_pc = "load" => (IF history.exists THEN Range(history.ids) ELSE {}) = sb_before

\* C15 witness: a second or later run has ended in which one scraped deal was
\* also scraped by the run before and another was not.
C15_Witness ==
    /\ sb_pc = "ended"
    /\ sb_run >= 2
    /\ \E i \in 1..Len(all_current_deals) : all_current_deals[i].id \in sb_before
    /\ new_deals # <<>>
    /\ Len(new_deals) < Len(all_current_deals)

====
